---- MODULE Spec2Model ----
(***************************************************************************)
(* Certificate issuance pipeline of the attendance backend:                *)
(*   routes/certificateRoutes.js  rate limiter, circuit-breaker gate,      *)
(*                                issuance and download handlers, sweep    *)
(*   utils/certificateGenerator.js  generateTeamCertificateBuffers         *)
(*   server.js                    breaker record, global error handler     *)
(*   utils/memoryMonitor.js       critical-memory handler                  *)
(* Time is Date.now() in milliseconds.  Every handler is cut at its awaits:*)
(* one action is the code that runs between two suspension points.         *)
(***************************************************************************)
EXTENDS Integers, Sequences, FiniteSets, TLC

VARIABLES
  now,               \* Date.now()
  circuitBreaker,    \* global.circuitBreakers.get("certificate_generator")
  metrics,           \* certificateRoutes.js metrics
  certificateStore,  \* Map token -> stored certificate, in insertion order
  requestCounts,     \* Map ip -> {count, resetAt}
  reqs,              \* issuance requests in flight, one record per slot
  call,              \* a direct call of generateTeamCertificateBuffers
  render,            \* a call of generateCertificateBuffer and its retries
  globalErrors,      \* runs of server.js's error middleware so far
  issued,            \* history: every entry ever put into the store, by token
  evicted,           \* history: tokens removed by the sweep's capacity pass
  streak,            \* history: outcome run of the completed requests
  out                \* what the latest step answered or reported, if anything

vars == <<now, circuitBreaker, metrics, certificateStore, requestCounts, reqs,
          call, render, globalErrors, issued, evicted, streak, out>>

----------------------------------------------------------------------------
(* Bounds of the model *)

\* the clock advances in steps of TimeStep ms, MaxTicks times
TimeStep == 30000
MaxTicks == 3
\* issuance requests that pass the rate limiter
MaxRequests == 5
\* issuance requests of the store specification
MaxStoreRequests == 2
\* requests one caller makes in the store specification
MaxStoreCalls == 3
\* issuance requests of the eligibility specification
MaxEligibilityRequests == 2
\* issuance requests of the stage-order specification
MaxStageRequests == 2
\* issuance requests of the metrics specification that reach the handler
MaxMetricsRequests == 2
\* issuance requests of the timings specification
MaxTimingRequests == 3
\* the generation times kept (100 in the source, line 454)
GenerationTimesKept == 2
\* issuance requests of the rate-limit specification that reach the handler
MaxRatePosts == 2
\* runs of the global error handler
MaxGlobalErrors == 2
\* longest roster of a direct batch call
MaxRoster == 3
\* issuance requests handled with the routes module's own breaker record
MaxFallbackRequests == 8
\* successful requests in a row given to the half-open breaker to close
MaxFallbackTrials == 3
\* issuance requests of the recovery specification
MaxRecoveryRequests == 5
\* render failures of the recovery specification; from then on renders succeed
MaxRecoveryFailures == 2

\* Sizes the source fixes at values too large to enumerate.  The model keeps
\* their order (consecutive < cumulative, more than one trial success, a store
\* that two rosters overflow) and scales them down:
\* MAX_CERTIFICATE_STORE_SIZE is 1000 in certificateRoutes.js line 211
MAX_CERTIFICATE_STORE_SIZE == 2
\* consecutiveFailureThreshold is 5 in server.js line 27
ConsecutiveFailureThreshold == 2
\* failureThreshold is 10 in server.js line 15
FailureThreshold == 3
\* successThreshold is 3 in server.js line 17
SuccessThreshold == 2

----------------------------------------------------------------------------
(* Program constants *)

CERTIFICATE_TTL == 60000
RATE_LIMIT_WINDOW == 60000
RATE_LIMIT_MAX == 20

\* server.js: the breaker record registered at startup. notNumbers names the
\* numeric fields of a record whose value is undefined or NaN (none here)
StartupBreaker ==
  [ failureCount |-> 0, failureThreshold |-> FailureThreshold,
    resetTimeout |-> 60000,
    successThreshold |-> SuccessThreshold, successCount |-> 0, isOpen |-> FALSE,
    isHalfOpen |-> FALSE, resetTime |-> 0, lastAttemptTime |-> 0,
    totalRequests |-> 0, totalFailures |-> 0, consecutiveFailures |-> 0,
    consecutiveFailureThreshold |-> ConsecutiveFailureThreshold,
    notNumbers |-> {} ]

\* certificateRoutes.js: the record the routes module creates when none is
\* registered: failureCount, failureThreshold, resetTimeout, isOpen and
\* resetTime only. Every other numeric field is undefined, isHalfOpen is
\* undefined (falsy) until the gate or the catch block assigns it
FallbackBreaker ==
  [ failureCount |-> 0, failureThreshold |-> 5, resetTimeout |-> 30000,
    successThreshold |-> 0, successCount |-> 0, isOpen |-> FALSE,
    isHalfOpen |-> FALSE, resetTime |-> 0, lastAttemptTime |-> 0,
    totalRequests |-> 0, totalFailures |-> 0, consecutiveFailures |-> 0,
    consecutiveFailureThreshold |-> 0,
    notNumbers |-> {"successThreshold", "successCount", "totalRequests",
                    "totalFailures", "consecutiveFailures",
                    "consecutiveFailureThreshold"} ]

\* cb.field++ : undefined and NaN become (stay) NaN
Increment(cb, field) ==
  IF field \in cb.notNumbers THEN cb ELSE [cb EXCEPT ![field] = @ + 1]

\* cb.field >= cb.threshold : false when either side is undefined or NaN
AtLeast(cb, field, threshold) ==
  /\ field \notin cb.notNumbers
  /\ threshold \notin cb.notNumbers
  /\ cb[field] >= cb[threshold]

----------------------------------------------------------------------------
(* The directory (Models.js collections), fixed for a run *)

NoCode == "<missing>"

\* a string is the sequence of its characters; undefined is the empty one
NoName == <<>>

\* CodersCupAttendance documents by att_code
Team(attendance, Competition, Team_Name, Leader_name, mem1_name) ==
  [ attendance |-> attendance, Competition |-> Competition,
    Team_Name |-> Team_Name, Leader_name |-> Leader_name,
    mem1_name |-> mem1_name, mem2_name |-> NoName, mem3_name |-> NoName,
    mem4_name |-> NoName ]

Teams ==
  [ SOLO   |-> Team(TRUE, "SQL Saga", "Team Solo", <<"K", "K">>, NoName),
    DUO    |-> Team(TRUE, "SQL Saga", "Team Automation",
                    <<"A", " ", "K">>, <<"R", " ", "\t", "I">>),
    ABSENT |-> Team(FALSE, "SQL Saga", "Team Absent", <<"S", " ", "A">>, NoName),
    FUTURE |-> Team(TRUE, "Future SQL Saga", "Team Future",
                    <<"F", " ", "L">>, NoName),
    ORPHAN |-> Team(TRUE, "Ghost Cup", "Team Ghost", <<"G">>, NoName) ]

\* Event documents by competitionName
Events ==
  [ SQL    |-> [ competitionName |-> "SQL Saga", end_time |-> -1 ],
    FUTURE |-> [ competitionName |-> "Future SQL Saga", end_time |-> TimeStep ] ]

AttCodes == {NoCode, "UNKNOWN"} \cup DOMAIN Teams

Null == [ null |-> TRUE ]

\* CodersCupAttendance.findOne({att_code})
FindTeam(att_code) ==
  IF att_code \in DOMAIN Teams THEN Teams[att_code] ELSE Null

\* Event.findOne({competitionName})
FindEvent(competitionName) ==
  IF \E k \in DOMAIN Events : Events[k].competitionName = competitionName
  THEN Events[CHOOSE k \in DOMAIN Events :
                Events[k].competitionName = competitionName]
  ELSE Null

----------------------------------------------------------------------------
(* Helpers *)

\* Math.ceil(a / b) for b > 0
CeilDiv(a, b) == IF a % b = 0 THEN a \div b ELSE (a \div b) + 1

\* /health: circuitBreaker.isOpen ? "open" : isHalfOpen ? "half-open" : "closed"
BreakerStatus(cb) ==
  IF cb.isOpen THEN "open" ELSE IF cb.isHalfOpen THEN "half-open" ELSE "closed"

\* the PDF bytes of one rendered certificate
PdfBuffer(name, competition, teamName) ==
  [ Title |-> name, Subject |-> <<teamName, competition>> ]

\* cert.name.replace(/\s+/g, "-"): every run of whitespace becomes one hyphen
IsSpace(c) == c \in {" ", "\t", "\n"}

\* a replacement without the +: every whitespace character becomes a hyphen
HyphenateEachSpace(name) ==
  [ i \in 1..Len(name) |-> IF IsSpace(name[i]) THEN "-" ELSE name[i] ]

Hyphenate(name) ==
  LET F[i \in 0..Len(name)] ==
        IF i = 0 THEN <<>>
        ELSE IF IsSpace(name[i])
             THEN IF i > 1 /\ IsSpace(name[i - 1])
                  THEN F[i - 1] ELSE Append(F[i - 1], "-")
             ELSE Append(F[i - 1], name[i])
  IN F[Len(name)]

\* `${cert.name.replace(/\s+/g, "-")}-Certificate.pdf`
Filename(name) == Hyphenate(name) \o <<"-Certificate.pdf">>

----------------------------------------------------------------------------
(* rateLimiter(req, res, next) *)

IPs == {"10.0.0.1", "10.0.0.2"}

\* the record of ip after the window check (lines 264-269)
WindowRecord(ip) ==
  IF ip \notin DOMAIN requestCounts
  THEN [ count |-> 0, resetAt |-> now + RATE_LIMIT_WINDOW ]
  ELSE IF requestCounts[ip].resetAt < now
       THEN [ count |-> 0, resetAt |-> now + RATE_LIMIT_WINDOW ]
       ELSE requestCounts[ip]

\* a middleware that keeps one record for all callers
RateLimiterOneRecord(ip) ==
  LET record == WindowRecord(ip)
      next == IF record.count >= RATE_LIMIT_MAX
              THEN record ELSE [record EXCEPT !.count = @ + 1]
      known == DOMAIN requestCounts \cup {ip}
  IN IF record.count >= RATE_LIMIT_MAX
     THEN [ admitted |-> FALSE, status |-> 429,
            retryAfter |-> CeilDiv(record.resetAt - now, 1000),
            counts |-> [ k \in known |-> next ] ]
     ELSE [ admitted |-> TRUE, status |-> 0, retryAfter |-> 0,
            counts |-> [ k \in known |-> next ] ]

\* the outcome of the middleware for a request of ip at the current time
RateLimiter(ip) ==
  LET record == WindowRecord(ip) IN
  IF record.count >= RATE_LIMIT_MAX
  THEN [ admitted |-> FALSE, status |-> 429,
         retryAfter |-> CeilDiv(record.resetAt - now, 1000),
         counts |-> (ip :> record) @@ requestCounts ]
  ELSE [ admitted |-> TRUE, status |-> 0, retryAfter |-> 0,
         counts |-> (ip :> [record EXCEPT !.count = @ + 1]) @@ requestCounts ]

----------------------------------------------------------------------------
(* The circuit breaker as the issuance handler drives it *)

\* a gate that lets a request through at the instant of resetTime
BreakerGateAtResetTime(cb) ==
  LET seen == [cb EXCEPT !.totalRequests = @ + 1, !.lastAttemptTime = now] IN
  IF seen.isOpen
  THEN IF now >= seen.resetTime
       THEN [ pass |-> TRUE, retryAfter |-> 0,
              cb |-> [seen EXCEPT !.isOpen = FALSE, !.isHalfOpen = TRUE] ]
       ELSE LET retryAfter == CeilDiv(seen.resetTime - now, 1000) IN
            [ pass |-> FALSE,
              retryAfter |-> IF retryAfter > 0 THEN retryAfter ELSE 30,
              cb |-> seen ]
  ELSE [ pass |-> TRUE, retryAfter |-> 0, cb |-> seen ]

\* a gate that lets a single trial through and turns half-open arrivals away
BreakerGateSingleTrial(cb) ==
  LET seen == [cb EXCEPT !.totalRequests = @ + 1, !.lastAttemptTime = now] IN
  IF seen.isOpen
  THEN IF now > seen.resetTime
       THEN [ pass |-> TRUE, retryAfter |-> 0,
              cb |-> [seen EXCEPT !.isOpen = FALSE, !.isHalfOpen = TRUE] ]
       ELSE LET retryAfter == CeilDiv(seen.resetTime - now, 1000) IN
            [ pass |-> FALSE,
              retryAfter |-> IF retryAfter > 0 THEN retryAfter ELSE 30,
              cb |-> seen ]
  ELSE IF seen.isHalfOpen
       THEN [ pass |-> FALSE, retryAfter |-> 30, cb |-> seen ]
       ELSE [ pass |-> TRUE, retryAfter |-> 0, cb |-> seen ]

\* a gate whose retry hint is the computed value alone
BreakerGateNoFallbackHint(cb) ==
  LET seen == [cb EXCEPT !.totalRequests = @ + 1, !.lastAttemptTime = now] IN
  IF seen.isOpen
  THEN IF now > seen.resetTime
       THEN [ pass |-> TRUE, retryAfter |-> 0,
              cb |-> [seen EXCEPT !.isOpen = FALSE, !.isHalfOpen = TRUE] ]
       ELSE [ pass |-> FALSE,
              retryAfter |-> CeilDiv(seen.resetTime - now, 1000),
              cb |-> seen ]
  ELSE [ pass |-> TRUE, retryAfter |-> 0, cb |-> seen ]

\* lines 298-326: the gate at the head of the handler
BreakerGate(cb) ==
  LET seen == [Increment(cb, "totalRequests") EXCEPT !.lastAttemptTime = now] IN
  IF seen.isOpen
  THEN IF now > seen.resetTime
       THEN [ pass |-> TRUE, retryAfter |-> 0,
              cb |-> [seen EXCEPT !.isOpen = FALSE, !.isHalfOpen = TRUE] ]
       ELSE LET retryAfter == CeilDiv(seen.resetTime - now, 1000) IN
            [ pass |-> FALSE,
              retryAfter |-> IF retryAfter > 0 THEN retryAfter ELSE 30,
              cb |-> seen ]
  ELSE [ pass |-> TRUE, retryAfter |-> 0, cb |-> seen ]

\* a success accounting that counts the trial successes and never closes
RecordSuccessNeverClosing(cb) ==
  IF cb.isHalfOpen THEN Increment(cb, "successCount") ELSE cb

\* a success accounting that closes one success late
RecordSuccessLate(cb) ==
  IF cb.isHalfOpen
  THEN LET counted == [cb EXCEPT !.successCount = @ + 1] IN
       IF counted.successCount > counted.successThreshold
       THEN [counted EXCEPT !.isHalfOpen = FALSE, !.failureCount = 0,
                            !.consecutiveFailures = 0, !.successCount = 0]
       ELSE counted
  ELSE cb

\* lines 405-418: success accounting after the batch render returned
RecordSuccess(cb) ==
  IF cb.isHalfOpen
  THEN LET counted == Increment(cb, "successCount") IN
       IF AtLeast(counted, "successCount", "successThreshold")
       THEN [counted EXCEPT !.isHalfOpen = FALSE, !.failureCount = 0,
                            !.consecutiveFailures = 0, !.successCount = 0,
                            !.notNumbers = @ \ {"failureCount",
                                                "consecutiveFailures",
                                                "successCount"}]
       ELSE counted
  ELSE cb

\* a failure accounting that trips one failure late
RecordFailureLate(cb) ==
  LET counted == [cb EXCEPT !.failureCount = @ + 1, !.totalFailures = @ + 1,
                            !.consecutiveFailures = @ + 1] IN
  IF counted.consecutiveFailures > counted.consecutiveFailureThreshold
  THEN [counted EXCEPT !.isOpen = TRUE, !.isHalfOpen = FALSE,
                       !.resetTime = now + counted.resetTimeout]
  ELSE IF counted.failureCount > counted.failureThreshold
       THEN [counted EXCEPT !.isOpen = TRUE, !.isHalfOpen = FALSE,
                            !.resetTime = now + counted.resetTimeout]
       ELSE counted

\* a failure accounting that leaves totalFailures alone
RecordFailureUncounted(cb) ==
  LET counted == [cb EXCEPT !.failureCount = @ + 1,
                            !.consecutiveFailures = @ + 1] IN
  IF counted.consecutiveFailures >= counted.consecutiveFailureThreshold
  THEN [counted EXCEPT !.isOpen = TRUE, !.isHalfOpen = FALSE,
                       !.resetTime = now + counted.resetTimeout]
  ELSE IF counted.failureCount >= counted.failureThreshold
       THEN [counted EXCEPT !.isOpen = TRUE, !.isHalfOpen = FALSE,
                            !.resetTime = now + counted.resetTimeout]
       ELSE counted

\* a failure accounting that re-opens on any failure met half-open
RecordFailureReopening(cb) ==
  LET counted == [cb EXCEPT !.failureCount = @ + 1, !.totalFailures = @ + 1,
                            !.consecutiveFailures = @ + 1] IN
  IF \/ cb.isHalfOpen
     \/ counted.consecutiveFailures >= counted.consecutiveFailureThreshold
     \/ counted.failureCount >= counted.failureThreshold
  THEN [counted EXCEPT !.isOpen = TRUE, !.isHalfOpen = FALSE,
                       !.resetTime = now + counted.resetTimeout]
  ELSE counted

\* lines 474-500: the catch block's breaker update
RecordFailure(cb) ==
  LET counted == Increment(Increment(Increment(cb, "failureCount"),
                                     "totalFailures"),
                           "consecutiveFailures") IN
  IF AtLeast(counted, "consecutiveFailures", "consecutiveFailureThreshold")
  THEN [counted EXCEPT !.isOpen = TRUE, !.isHalfOpen = FALSE,
                       !.resetTime = now + counted.resetTimeout]
  ELSE IF AtLeast(counted, "failureCount", "failureThreshold")
       THEN [counted EXCEPT !.isOpen = TRUE, !.isHalfOpen = FALSE,
                            !.resetTime = now + counted.resetTimeout]
       ELSE counted

----------------------------------------------------------------------------
(* generateCertificateBuffer(name, competition, teamName, retryCount)      *)
(* An argument is a JS value [type, chars]: a string with its characters,  *)
(* or a value of another type                                              *)

MAX_RETRIES == 3
\* CONFIG.retry.backoffMs
backoffMs == 500

Str(chars) == [ type |-> "string", chars |-> chars ]
Undefined == [ type |-> "undefined", chars |-> <<>> ]
ANumber == [ type |-> "number", chars |-> <<>> ]

\* !value
Not(value) == value.type = "undefined" \/ value = Str(<<>>)

\* an Error; after > 0 is the prefix
\* "Certificate generation failed after <after> attempts: "
Error(message) == [ message |-> message, after |-> 0 ]
NoError == Error("")

\* 2^n
RECURSIVE Pow2(_)
Pow2(n) == IF n = 0 THEN 1 ELSE 2 * Pow2(n - 1)

\* pc is where the call stands: "drawing" while the PDF document of the
\* current attempt is being produced, "backoff" while the retry timer runs;
\* attempts, templates, timers and raised are its history: the attempts
\* started, the template of each attempt that drew, the delays of the timers
\* set, the errors met
NoRender ==
  [ pc |-> "idle", name |-> Undefined, competition |-> Undefined,
    files |-> [ primary |-> FALSE, fallback |-> FALSE ], retryCount |-> 0,
    attempts |-> 0, templates |-> <<>>, timers |-> <<>>, raised |-> <<>>,
    error |-> NoError, buffer |-> Null ]

\* adaptToEnvironment().useFallbackTemplate (lines 176-178)
UseFallbackTemplate(files) == ~files.primary

\* template resolution without the second look at the fallback
ResolveTemplateNoFallback(files) == IF files.primary THEN "primary" ELSE ""

\* lines 282-304: the template the attempt draws on, "" when it throws
ResolveTemplate(files) ==
  LET templatePath ==
        IF UseFallbackTemplate(files) THEN "fallback" ELSE "primary"
  IN IF files[templatePath] THEN templatePath
     ELSE IF files.fallback THEN "fallback" ELSE ""

\* lines 337-356: the catch block of an attempt
RenderCatch(rd, err) ==
  LET met == [rd EXCEPT !.raised = Append(@, err)] IN
  IF met.retryCount < MAX_RETRIES
  THEN [met EXCEPT !.pc = "backoff",
                   !.timers = Append(@, backoffMs * Pow2(met.retryCount))]
  ELSE [met EXCEPT !.pc = "rejected", !.error = err]

\* lines 211-334: an attempt, from validation to doc.end()
RenderAttempt(rd) ==
  LET started == [rd EXCEPT !.attempts = @ + 1]
      template == ResolveTemplate(started.files)
  IN IF Not(started.name) \/ started.name.type # "string"
     THEN RenderCatch(started, Error("Invalid recipient name"))
     ELSE IF Not(started.competition) \/ started.competition.type # "string"
     THEN RenderCatch(started, Error("Invalid competition name"))
     ELSE IF template = ""
     THEN RenderCatch(started,
            Error("Certificate template not found and no fallback available"))
     ELSE [started EXCEPT !.pc = "drawing",
                          !.templates = Append(@, template)]

\* lines 258-280: doc.on("error")
RenderOnError(rd, err) ==
  LET met == [rd EXCEPT !.raised = Append(@, err)] IN
  IF met.retryCount < MAX_RETRIES
  THEN RenderAttempt([met EXCEPT !.retryCount = @ + 1])
  ELSE [met EXCEPT !.pc = "rejected",
                   !.error = [err EXCEPT !.after = MAX_RETRIES]]

\* lines 254-257: doc.on("end")
RenderOnEnd(rd) ==
  [rd EXCEPT !.pc = "resolved",
             !.buffer = PdfBuffer(rd.name.chars, rd.competition.chars, "")]

\* lines 345-349: the retry timer fires
RenderOnTimer(rd) == RenderAttempt([rd EXCEPT !.retryCount = @ + 1])

----------------------------------------------------------------------------
(* generateTeamCertificateBuffers(members, competition, teamName)          *)
(* members is [isArray, items]: a JS value that is an array of items, or a  *)
(* value that is none: null (no items) or a string (its characters)        *)

List(items) == [ isArray |-> TRUE, items |-> items ]
NotAList(items) == [ isArray |-> FALSE, items |-> items ]

AllFailedMessage == "Certificate generation failed for all team members"

NoBatch ==
  [ pc |-> "idle", members |-> List(<<>>), competition |-> "", teamName |-> "",
    i |-> 0, certificates |-> <<>>, errors |-> <<>>, renders |-> 0,
    result |-> <<>>, error |-> "", outcomes |-> <<>> ]

\* a batch that throws as soon as one member failed
BatchFinishThrowsOnAnyError(b) ==
  IF Len(b.errors) > 0
  THEN [b EXCEPT !.pc = "threw", !.error = AllFailedMessage]
  ELSE [b EXCEPT !.pc = "returned", !.result = b.certificates]

\* a batch that returns what it has, however many members failed
BatchFinishNeverThrows(b) ==
  [b EXCEPT !.pc = "returned", !.result = b.certificates]

\* lines 404-415: after the loop
BatchFinish(b) ==
  IF Len(b.errors) > 0 /\ Len(b.errors) = Len(b.members.items)
  THEN [b EXCEPT !.pc = "threw", !.error = AllFailedMessage]
  ELSE [b EXCEPT !.pc = "returned", !.result = b.certificates]

\* an entry that tests the length only, not Array.isArray
BatchEnterWithoutArrayCheck(members, competition, teamName) ==
  IF Len(members.items) = 0
  THEN [NoBatch EXCEPT !.pc = "returned", !.members = members,
                       !.competition = competition, !.teamName = teamName]
  ELSE [NoBatch EXCEPT !.pc = "await", !.members = members,
                       !.competition = competition, !.teamName = teamName,
                       !.i = 1, !.renders = 1]

\* an entry that starts the renders of all members at once
BatchEnterAllAtOnce(members, competition, teamName) ==
  IF ~members.isArray \/ Len(members.items) = 0
  THEN [NoBatch EXCEPT !.pc = "returned", !.members = members,
                       !.competition = competition, !.teamName = teamName]
  ELSE [NoBatch EXCEPT !.pc = "await", !.members = members,
                       !.competition = competition, !.teamName = teamName,
                       !.i = 1, !.renders = Len(members.items)]

\* lines 372-391: up to the first await; the first render is started
BatchEnter(members, competition, teamName) ==
  IF ~members.isArray \/ Len(members.items) = 0
  THEN [NoBatch EXCEPT !.pc = "returned", !.members = members,
                       !.competition = competition, !.teamName = teamName]
  ELSE [NoBatch EXCEPT !.pc = "await", !.members = members,
                       !.competition = competition, !.teamName = teamName,
                       !.i = 1, !.renders = 1]

\* lines 385-402: the awaited render of member i settles (ok: it resolved),
\* and the loop goes on to the next member or ends
BatchSettle(b, ok) ==
  LET member == b.members.items[b.i]
      pushed ==
        IF ok
        THEN [b EXCEPT !.certificates = Append(@,
                [ name |-> member,
                  buffer |-> PdfBuffer(member, b.competition, b.teamName) ])]
        ELSE [b EXCEPT !.errors = Append(@, [ name |-> member ])]
  IN IF b.i < Len(b.members.items)
     THEN [pushed EXCEPT !.i = @ + 1, !.renders = @ + 1]
     ELSE BatchFinish([pushed EXCEPT !.i = @ + 1])

\* BatchSettle, with the outcome of the render noted in the call's history
Settled(b, ok) == [BatchSettle(b, ok) EXCEPT !.outcomes = Append(b.outcomes, ok)]

----------------------------------------------------------------------------
(* The certificate store *)

\* generateSecureToken(): 16 random bytes; the k-th token handed out is k
Token(k) == k

\* crypto.randomBytes(16): the bytes of the k-th draw; draws do not repeat
RandomBytes(k) == [ i \in 1..16 |-> IF i = 16 THEN k % 256
                                    ELSE IF i = 15 THEN (k \div 256) % 256
                                    ELSE 0 ]

\* Buffer.toString("hex"): two lowercase hex digits per byte
HexDigits == <<"0", "1", "2", "3", "4", "5", "6", "7",
               "8", "9", "a", "b", "c", "d", "e", "f">>

ToHex(bytes) ==
  [ i \in 1..(2 * Len(bytes)) |->
      IF i % 2 = 1 THEN HexDigits[(bytes[(i + 1) \div 2] \div 16) + 1]
      ELSE HexDigits[(bytes[i \div 2] % 16) + 1] ]

\* the text of token k, as the response and the download path carry it
TokenText(k) == ToHex(RandomBytes(k))

StoreHas(token) == \E j \in 1..Len(certificateStore) :
                      certificateStore[j].token = token

StoreGet(token) ==
  certificateStore[CHOOSE j \in 1..Len(certificateStore) :
                     certificateStore[j].token = token]

\* lines 421-438: one stored entry per returned certificate
StoredEntries(certificates) ==
  [ k \in 1..Len(certificates) |->
      [ token |-> Token(Len(issued) + k),
        buffer |-> certificates[k].buffer,
        name |-> certificates[k].name,
        contentType |-> "application/pdf",
        filename |-> Filename(certificates[k].name),
        expiry |-> now + CERTIFICATE_TTL ] ]

\* the response's downloadTokens: memberIndex is the index in certificates
DownloadTokens(certificates) ==
  [ k \in 1..Len(certificates) |->
      [ memberName |-> certificates[k].name,
        memberIndex |-> k - 1,
        token |-> Token(Len(issued) + k),
        downloadUrl |-> <<"/api/certificates/download/">>
                          \o TokenText(Token(Len(issued) + k)) ] ]

\* Array.prototype.sort((a, b) => a[1].expiry - b[1].expiry): stable
RECURSIVE SortByExpiry(_)
SortByExpiry(entries) ==
  IF Len(entries) <= 1 THEN entries
  ELSE LET head == SortByExpiry(SubSeq(entries, 1, Len(entries) - 1))
           last == entries[Len(entries)]
           n == Cardinality({ j \in 1..Len(head) : head[j].expiry <= last.expiry })
       IN SubSeq(head, 1, n) \o <<last>> \o SubSeq(head, n + 1, Len(head))

\* lines 219-224: the expiry pass
Unexpired(entries) == SelectSeq(entries, LAMBDA e : ~(now > e.expiry))

\* a capacity pass that removes one entry too few
CapacityVictimsOneShort(kept) ==
  IF Len(kept) > MAX_CERTIFICATE_STORE_SIZE
  THEN LET sorted == SortByExpiry(kept)
           entriesToRemove ==
             SubSeq(sorted, 1, Len(kept) - MAX_CERTIFICATE_STORE_SIZE - 1)
       IN { entriesToRemove[j].token : j \in 1..Len(entriesToRemove) }
  ELSE {}

\* a capacity pass that removes the entries with the latest expiry
CapacityVictimsNewest(kept) ==
  IF Len(kept) > MAX_CERTIFICATE_STORE_SIZE
  THEN LET sorted == SortByExpiry(kept)
           entriesToRemove ==
             SubSeq(sorted, MAX_CERTIFICATE_STORE_SIZE + 1, Len(kept))
       IN { entriesToRemove[j].token : j \in 1..Len(entriesToRemove) }
  ELSE {}

\* lines 227-241: the tokens the capacity pass removes from the kept entries
CapacityVictims(kept) ==
  IF Len(kept) > MAX_CERTIFICATE_STORE_SIZE
  THEN LET sorted == SortByExpiry(kept)
           entriesToRemove ==
             SubSeq(sorted, 1, Len(kept) - MAX_CERTIFICATE_STORE_SIZE)
       IN { entriesToRemove[j].token : j \in 1..Len(entriesToRemove) }
  ELSE {}

\* the store after one sweep cycle
SweepStore(entries) ==
  LET kept == Unexpired(entries)
      victims == CapacityVictims(kept)
  IN SelectSeq(kept, LAMBDA e : e.token \notin victims)

----------------------------------------------------------------------------
(* State of one issuance request, POST / *)

\* the slots of the requests in flight
ReqIds == {1, 2}

\* pc, ip, att_code, team and batch are the handler's; the rest is history:
\* open and due are isOpen and now > resetTime as the request found them,
\* afterTrip tells the first request to arrive after a trip, gate is the
\* breaker status the gate left, lookups counts the directory lookups, threw
\* tells that the latest directory lookup rejected
Idle ==
  [ pc |-> "idle", ip |-> "", att_code |-> NoCode, gate |-> "",
    open |-> FALSE, due |-> FALSE, afterTrip |-> FALSE,
    team |-> Null, event |-> Null, lookups |-> 0, threw |-> FALSE,
    startTime |-> 0, batch |-> NoBatch ]

\* the latest step answered nothing
NoOut == [ kind |-> "none" ]

\* a response of request q: what it answers, what the request did (threw: an
\* awaited call of it rejected), and the breaker record, the metrics and the
\* number of issued tokens as the answering step found them
Response(q, status, message, retryAfter, downloadTokens) ==
  [ kind |-> "post", status |-> status, message |-> message,
    breaker |-> circuitBreaker, stored |-> Len(issued), event |-> q.event,
    metrics |-> metrics, threw |-> q.threw \/ q.batch.pc = "threw",
    startTime |-> q.startTime,
    retryAfter |-> retryAfter, ip |-> q.ip, att_code |-> q.att_code,
    gate |-> q.gate, open |-> q.open, due |-> q.due,
    afterTrip |-> q.afterTrip,
    before |-> BreakerStatus(circuitBreaker), team |-> q.team,
    lookups |-> q.lookups, renders |-> q.batch.renders,
    outcomes |-> q.batch.outcomes, members |-> q.batch.members.items,
    downloadTokens |-> downloadTokens ]

\* the run of outcomes, in completion order, that the latest response ends:
\* fails counts the latest responses in a row that came from the catch block,
\* from is the breaker status before the first of them, trials counts the
\* latest responses in a row that were 200s answered while half-open since
\* the gate last turned the breaker half-open, clean counts the 200s answered
\* while half-open since the latest response from the catch block and since
\* the gate last turned the breaker half-open, run counts the responses from
\* the catch block since the latest 200, and tripped tells that consecutiveFailureThreshold failures in a row, the
\* first of them met by a closed breaker, have completed and that no
\* request has reached the handler since
Completed(q, status) ==
  LET before == BreakerStatus(circuitBreaker)
      fails == IF status = 500 THEN streak.fails + 1 ELSE 0
      from == IF status = 500
              THEN IF streak.fails = 0 THEN before ELSE streak.from
              ELSE ""
  IN [ fails |-> fails,
       from |-> from,
       trials |-> IF status = 200 /\ before = "half-open"
                  THEN streak.trials + 1 ELSE 0,
       clean |-> IF status = 500 \/ (q.pc = "idle" /\ q.open) THEN 0
                 ELSE IF status = 200 /\ before = "half-open"
                 THEN streak.clean + 1 ELSE streak.clean,
       run |-> IF status = 500 THEN streak.run + 1
               ELSE IF status = 200 THEN 0 ELSE streak.run,
       tripped |-> IF q.pc = "idle" THEN FALSE
                   ELSE \/ streak.tripped
                        \/ /\ from = "closed"
                           /\ fails >= circuitBreaker.consecutiveFailureThreshold ]

Respond(r, q, status, message, retryAfter, downloadTokens) ==
  /\ out' = Response(q, status, message, retryAfter, downloadTokens)
  /\ streak' = Completed(q, status)
  /\ reqs' = [reqs EXCEPT ![r] = Idle]

\* members = [Leader_name, mem1_name?, ..., mem4_name?] (lines 380-384)
Truthy(name) == name # NoName

Members(team) ==
  <<team.Leader_name>>
    \o (IF Truthy(team.mem1_name) THEN <<team.mem1_name>> ELSE <<>>)
    \o (IF Truthy(team.mem2_name) THEN <<team.mem2_name>> ELSE <<>>)
    \o (IF Truthy(team.mem3_name) THEN <<team.mem3_name>> ELSE <<>>)
    \o (IF Truthy(team.mem4_name) THEN <<team.mem4_name>> ELSE <<>>)

----------------------------------------------------------------------------
(* POST /: the handler, one action per run between awaits *)

\* lines 463-504: the catch block
Catch(r, q, errMessage) ==
  /\ metrics' = [metrics EXCEPT !.failedRequests = @ + 1,
                                !.lastError = errMessage]
  /\ circuitBreaker' = RecordFailure(circuitBreaker)
  /\ Respond(r, q, 500, "Error generating certificate", 0, <<>>)
  /\ UNCHANGED <<certificateStore, issued>>

\* a timing record that is never trimmed
RecordTimeUnbounded(times, duration) == Append(times, duration)

\* lines 452-456: push the duration, drop the oldest beyond the kept ones
RecordTime(times, duration) ==
  LET pushed == Append(times, duration) IN
  IF Len(pushed) > GenerationTimesKept THEN Tail(pushed) ELSE pushed

\* lines 399-462: the batch returned its certificates
Succeed(r, q) ==
  LET certificates == q.batch.result IN
  /\ circuitBreaker' = RecordSuccess(circuitBreaker)
  /\ certificateStore' = certificateStore \o StoredEntries(certificates)
  /\ issued' = issued \o StoredEntries(certificates)
  /\ metrics' = [metrics EXCEPT
                   !.successfulRequests = @ + 1,
                   !.generationTimes = RecordTime(@, now - q.startTime)]
  /\ Respond(r, q, 200, "Certificate generated successfully", 0,
             DownloadTokens(certificates))

\* an early exit that forgets to count the request as failed
RejectUncounted(r, q, status, message, retryAfter) ==
  /\ metrics' = metrics
  /\ Respond(r, q, status, message, retryAfter, <<>>)
  /\ UNCHANGED <<certificateStore, issued>>

\* an early exit: failedRequests++ and a 4xx or 503 response
Reject(r, q, status, message, retryAfter) ==
  /\ metrics' = [metrics EXCEPT !.failedRequests = @ + 1]
  /\ Respond(r, q, status, message, retryAfter, <<>>)
  /\ UNCHANGED <<certificateStore, issued>>

\* the request is past await generateTeamCertificateBuffers(...) or still in it
AfterBatch(r, q) ==
  IF q.batch.pc = "await"
  THEN /\ reqs' = [reqs EXCEPT ![r] = q]
       /\ out' = NoOut
       /\ UNCHANGED <<circuitBreaker, metrics, certificateStore, issued, streak>>
  ELSE IF q.batch.pc = "threw"
       THEN Catch(r, q, q.batch.error)
       ELSE Succeed(r, q)

\* a handler head that validates the body before it consults the breaker
EarlyExitValidatingFirst(gate, att_code) ==
  IF att_code = NoCode THEN 400 ELSE IF ~gate.pass THEN 503 ELSE 0

\* lines 302-334: the exit the head of the handler takes, 0 when it goes on:
\* the breaker's decision comes first, the att_code check second
EarlyExit(gate, att_code) ==
  IF ~gate.pass THEN 503 ELSE IF att_code = NoCode THEN 400 ELSE 0

\* lines 259-339: rate limiter, breaker gate, att_code check, findOne started
PostArrive(r, ip, att_code) ==
  /\ reqs[r].pc = "idle"
  /\ \A other \in ReqIds : other < r => reqs[other].pc # "idle"
  /\ LET limit == RateLimiter(ip)
         counted == [metrics EXCEPT !.totalRequests = @ + 1]
         gate == BreakerGate(circuitBreaker)
         exit == EarlyExit(gate, att_code)
         q == [Idle EXCEPT !.ip = ip, !.att_code = att_code,
                           !.startTime = now,
                           !.gate = BreakerStatus(gate.cb),
                           !.open = circuitBreaker.isOpen,
                           !.due = now > circuitBreaker.resetTime,
                           !.afterTrip = streak.tripped]
     IN /\ requestCounts' = limit.counts
        /\ IF ~limit.admitted
           THEN /\ out' = Response(q, 429,
                            "Too many requests, please try again later",
                            limit.retryAfter, <<>>)
                /\ UNCHANGED <<circuitBreaker, metrics, certificateStore,
                               issued, streak, reqs>>
           ELSE /\ circuitBreaker' = gate.cb
                /\ IF exit = 503
                   THEN /\ metrics' = [counted EXCEPT !.failedRequests = @ + 1]
                        /\ Respond(r, q, 503,
                             "Certificate generation temporarily unavailable due to system load",
                             gate.retryAfter, <<>>)
                        /\ UNCHANGED <<certificateStore, issued>>
                   ELSE IF exit = 400
                   THEN /\ metrics' = [counted EXCEPT !.failedRequests = @ + 1]
                        /\ Respond(r, q, 400, "Attendance code is required",
                                   0, <<>>)
                        /\ UNCHANGED <<certificateStore, issued>>
                   ELSE /\ metrics' = counted
                        /\ reqs' = [reqs EXCEPT ![r] =
                                      [q EXCEPT !.pc = "findTeam"]]
                        /\ out' = NoOut
                        /\ streak' = [streak EXCEPT
                                        !.tripped = FALSE,
                                        !.trials = IF q.open THEN 0 ELSE @,
                                        !.clean = IF q.open THEN 0 ELSE @]
                        /\ UNCHANGED <<certificateStore, issued>>
  /\ UNCHANGED <<now, call, render, globalErrors, evicted>>

\* lines 339-360: CodersCupAttendance.findOne settled; Event.findOne started
PostTeam(r, dbOk) ==
  /\ reqs[r].pc = "findTeam"
  /\ LET q == [reqs[r] EXCEPT !.lookups = @ + 1, !.threw = ~dbOk]
         team == FindTeam(q.att_code)
     IN IF ~dbOk
        THEN Catch(r, q, "directory error")
        ELSE IF team = Null
        THEN /\ circuitBreaker' = circuitBreaker
             /\ Reject(r, q, 404, "Team not found", 0)
        ELSE /\ reqs' = [reqs EXCEPT ![r] =
                           [q EXCEPT !.pc = "findEvent", !.team = team]]
             /\ out' = NoOut
             /\ UNCHANGED <<circuitBreaker, metrics, certificateStore, issued,
                            streak>>
  /\ UNCHANGED <<now, requestCounts, call, render, globalErrors, evicted>>

\* an event check that lets the instant of end_time through
NotConcludedBeforeEnd(event) == now < event.end_time

\* line 369: now <= event.end_time
NotConcluded(event) == now <= event.end_time

\* lines 360-397: Event.findOne settled; eligibility; the batch is entered
PostEvent(r, dbOk) ==
  /\ reqs[r].pc = "findEvent"
  /\ LET found == FindEvent(reqs[r].team.Competition)
         event == IF dbOk THEN found ELSE Null
         q == [reqs[r] EXCEPT !.lookups = @ + 1, !.event = event,
                              !.threw = ~dbOk]
     IN IF ~dbOk
        THEN Catch(r, q, "directory error")
        ELSE IF event = Null
        THEN /\ circuitBreaker' = circuitBreaker
             /\ Reject(r, q, 404, "Event not found", 0)
        ELSE IF NotConcluded(event)
        THEN /\ circuitBreaker' = circuitBreaker
             /\ Reject(r, q, 400,
                  "Certificates are only available after the event has ended", 0)
        ELSE AfterBatch(r, [q EXCEPT !.pc = "render",
                               !.batch = BatchEnter(List(Members(q.team)),
                                           q.team.Competition, q.team.Team_Name)])
  /\ UNCHANGED <<now, requestCounts, call, render, globalErrors, evicted>>

\* lines 385-462: one member's render settled; the loop goes on, or the
\* batch ends and the handler runs to its response
PostRender(r, ok) ==
  /\ reqs[r].pc = "render"
  /\ AfterBatch(r, [reqs[r] EXCEPT !.batch = Settled(@, ok)])
  /\ UNCHANGED <<now, requestCounts, call, render, globalErrors, evicted>>

----------------------------------------------------------------------------
(* GET /download/:token *)

\* a download route without the rate limiter
DownloadUnlimited(ip, token) ==
  LET answer == [ kind |-> "get", ip |-> ip, token |-> token, status |-> 0,
                  retryAfter |-> 0, buffer |-> Null, contentType |-> "",
                  filename |-> <<>>, at |-> now ]
  IN /\ requestCounts' = requestCounts
     /\ out' =
          IF ~StoreHas(token)
          THEN [answer EXCEPT !.status = 404]
          ELSE LET certificate == StoreGet(token) IN
               [answer EXCEPT !.status = 200,
                              !.buffer = certificate.buffer,
                              !.contentType = certificate.contentType,
                              !.filename = certificate.filename]
     /\ UNCHANGED <<now, circuitBreaker, metrics, certificateStore, reqs, call,
                    render, globalErrors, issued, evicted, streak>>

\* a download that consumes the token it redeems
DownloadOnce(ip, token) ==
  LET limit == RateLimiter(ip)
      found == limit.admitted /\ StoreHas(token)
  IN /\ requestCounts' = limit.counts
     /\ out' = [ kind |-> "get", ip |-> ip, token |-> token,
                 status |-> IF ~limit.admitted THEN 429
                            ELSE IF found THEN 200 ELSE 404,
                 retryAfter |-> limit.retryAfter,
                 buffer |-> IF found THEN StoreGet(token).buffer ELSE Null,
                 contentType |-> IF found THEN "application/pdf" ELSE "",
                 filename |-> IF found THEN StoreGet(token).filename ELSE <<>>,
                 at |-> now ]
     /\ certificateStore' =
          IF found THEN SelectSeq(certificateStore, LAMBDA e : e.token # token)
          ELSE certificateStore
     /\ UNCHANGED <<now, circuitBreaker, metrics, reqs, call, render, globalErrors,
                    issued, evicted, streak>>

\* lines 508-537, behind the rate limiter
Download(ip, token) ==
  LET limit == RateLimiter(ip)
      answer == [ kind |-> "get", ip |-> ip, token |-> token, status |-> 0,
                  retryAfter |-> 0, buffer |-> Null, contentType |-> "",
                  filename |-> <<>>, at |-> now ]
  IN /\ requestCounts' = limit.counts
     /\ out' =
          IF ~limit.admitted
          THEN [answer EXCEPT !.status = 429, !.retryAfter = limit.retryAfter]
          ELSE IF ~StoreHas(token)
          THEN [answer EXCEPT !.status = 404]
          ELSE LET certificate == StoreGet(token) IN
               [answer EXCEPT !.status = 200,
                              !.buffer = certificate.buffer,
                              !.contentType = certificate.contentType,
                              !.filename = certificate.filename]
     /\ UNCHANGED <<now, circuitBreaker, metrics, certificateStore, reqs, call, render,
                    globalErrors, issued, evicted, streak>>

----------------------------------------------------------------------------
(* Timers and the other writers of the breaker *)

\* lines 214-246: one cycle of cleanupInterval
Sweep ==
  /\ certificateStore' = SweepStore(certificateStore)
  /\ evicted' = evicted \cup CapacityVictims(Unexpired(certificateStore))
  /\ out' = [ kind |-> "sweep", before |-> Len(certificateStore),
              expired |-> Len(certificateStore)
                            - Len(Unexpired(certificateStore)),
              after |-> Len(SweepStore(certificateStore)) ]
  /\ UNCHANGED <<now, circuitBreaker, metrics, requestCounts, reqs, call, render,
                 globalErrors, issued, streak>>

\* memoryMonitor.js, _defaultOnCritical: lines 183-196
OnCritical(cb) ==
  IF ~cb.isOpen
  THEN [cb EXCEPT !.isOpen = TRUE, !.resetTime = now + cb.resetTimeout]
  ELSE cb

MemoryCritical ==
  /\ circuitBreaker' = OnCritical(circuitBreaker)
  /\ out' = NoOut
  /\ UNCHANGED <<now, metrics, certificateStore, requestCounts, reqs, call, render,
                 globalErrors, issued, evicted, streak>>

\* server.js lines 59-80: the error middleware, for a path with /certificates
OnUnhandledError(cb) ==
  LET counted == [cb EXCEPT !.failureCount = @ + 1] IN
  IF counted.failureCount >= counted.failureThreshold
  THEN [counted EXCEPT !.isOpen = TRUE,
                       !.resetTime = now + counted.resetTimeout]
  ELSE counted

GlobalError ==
  /\ globalErrors < MaxGlobalErrors
  /\ globalErrors' = globalErrors + 1
  /\ circuitBreaker' = OnUnhandledError(circuitBreaker)
  /\ out' = NoOut
  /\ UNCHANGED <<now, metrics, certificateStore, requestCounts, reqs, call, render,
                 issued, evicted, streak>>

\* the clock
Tick ==
  /\ now + TimeStep <= MaxTicks * TimeStep
  /\ now' = now + TimeStep
  /\ out' = NoOut
  /\ UNCHANGED <<circuitBreaker, metrics, certificateStore, requestCounts, reqs,
                 call, render, globalErrors, issued, evicted, streak>>

----------------------------------------------------------------------------
(* A direct call of generateTeamCertificateBuffers *)

Names == { <<"J", " ", "D">>, <<"B">> }

RECURSIVE Rosters(_)
Rosters(n) ==
  IF n = 0 THEN { <<>> }
  ELSE Rosters(n - 1)
         \cup { Append(m, name) : m \in Rosters(n - 1), name \in Names }

\* arrays of names, null, and the string "no"
MembersInputs ==
  { List(m) : m \in Rosters(MaxRoster) }
    \cup { NotAList(<<>>), NotAList(<<<<"n">>, <<"o">>>>) }

CallBatch(members) ==
  /\ call.pc = "idle"
  /\ call' = BatchEnter(members, "Web Development", "Team Alpha")
  /\ out' = NoOut
  /\ UNCHANGED <<now, circuitBreaker, metrics, certificateStore, requestCounts,
                 reqs, render, globalErrors, issued, evicted, streak>>

CallSettle(ok) ==
  /\ call.pc = "await"
  /\ call' = Settled(call, ok)
  /\ out' = NoOut
  /\ UNCHANGED <<now, circuitBreaker, metrics, certificateStore, requestCounts,
                 reqs, render, globalErrors, issued, evicted, streak>>

----------------------------------------------------------------------------
(* A call of generateCertificateBuffer *)

Values == { Str(<<"T", "U">>), Str(<<>>), Undefined, ANumber }

Files == [ primary : BOOLEAN, fallback : BOOLEAN ]

RenderFrame ==
  /\ out' = NoOut
  /\ UNCHANGED <<now, circuitBreaker, metrics, certificateStore, requestCounts,
                 reqs, call, globalErrors, issued, evicted, streak>>

\* generateCertificateBuffer(name, competition) with the files as they are
RenderCall(name, competition, files) ==
  /\ render.pc = "idle"
  /\ render' = RenderAttempt([NoRender EXCEPT !.name = name,
                                              !.competition = competition,
                                              !.files = files])
  /\ RenderFrame

\* the document of the attempt emits "end"
DocEnd ==
  /\ render.pc = "drawing"
  /\ render' = RenderOnEnd(render)
  /\ RenderFrame

\* the document of the attempt emits "error"
DocError ==
  /\ render.pc = "drawing"
  /\ render' = RenderOnError(render, Error("Simulated PDF error"))
  /\ RenderFrame

\* a drawing call of the attempt throws
DocThrow ==
  /\ render.pc = "drawing"
  /\ render' = RenderCatch(render, Error("Unknown image format."))
  /\ RenderFrame

\* the backoff timer of the catch block fires
RetryTimer ==
  /\ render.pc = "backoff"
  /\ render' = RenderOnTimer(render)
  /\ RenderFrame

----------------------------------------------------------------------------
(* Specifications *)

Init ==
  /\ now = 0
  /\ circuitBreaker = StartupBreaker
  /\ metrics = [ totalRequests |-> 0, successfulRequests |-> 0,
                 failedRequests |-> 0, generationTimes |-> <<>>,
                 lastError |-> "" ]
  /\ certificateStore = <<>>
  /\ requestCounts = <<>>
  /\ reqs = [ r \in ReqIds |-> Idle ]
  /\ call = NoBatch
  /\ render = NoRender
  /\ globalErrors = 0
  /\ issued = <<>>
  /\ evicted = {}
  /\ streak = [ fails |-> 0, from |-> "", trials |-> 0, clean |-> 0, run |-> 0,
                tripped |-> FALSE ]
  /\ out = NoOut

\* the issuance endpoint and everything that writes the breaker
Arrive == \E r \in ReqIds, att_code \in {NoCode, "SOLO"} :
            /\ metrics.totalRequests < MaxRequests
            /\ PostArrive(r, "10.0.0.1", att_code)
TeamFound == \E r \in ReqIds : PostTeam(r, TRUE)
EventFound == \E r \in ReqIds : PostEvent(r, TRUE)
RenderSettled == \E r \in ReqIds, ok \in BOOLEAN : PostRender(r, ok)

Next ==
  \/ Arrive
  \/ TeamFound
  \/ EventFound
  \/ RenderSettled
  \/ MemoryCritical
  \/ GlobalError
  \/ Tick

Spec == Init /\ [][Next]_vars

\* the store: issuance one request at a time, downloads, the sweep timer
NoneInFlight == \A r \in ReqIds : reqs[r].pc = "idle"

CallsOf(ip) == IF ip \in DOMAIN requestCounts THEN requestCounts[ip].count ELSE 0

Issue == \E att_code \in {"SOLO", "DUO"} :
           /\ NoneInFlight
           /\ metrics.totalRequests < MaxStoreRequests
           /\ PostArrive(1, "10.0.0.1", att_code)
IssueTeam == PostTeam(1, TRUE)
IssueEvent == PostEvent(1, TRUE)
IssueRender == PostRender(1, TRUE)
Redeem == \E token \in 1..(Len(issued) + 1) :
            /\ CallsOf("10.0.0.2") < MaxStoreCalls
            /\ Download("10.0.0.2", Token(token))

StoreNext ==
  \/ Issue
  \/ IssueTeam
  \/ IssueEvent
  \/ IssueRender
  \/ Redeem
  \/ Sweep
  \/ Tick

StoreSpec == Init /\ [][StoreNext]_vars

\* eligibility: every attendance code, directory lookups that may fail
Request == \E r \in ReqIds, att_code \in AttCodes :
             /\ metrics.totalRequests < MaxEligibilityRequests
             /\ PostArrive(r, "10.0.0.1", att_code)
TeamLookup == \E r \in ReqIds, dbOk \in BOOLEAN : PostTeam(r, dbOk)
EventLookup == \E r \in ReqIds, dbOk \in BOOLEAN : PostEvent(r, dbOk)

EligibilityNext ==
  \/ Request
  \/ TeamLookup
  \/ EventLookup
  \/ RenderSettled
  \/ Tick

EligibilitySpec == Init /\ [][EligibilityNext]_vars

\* the stages of a request: every attendance code, one request at a time, a
\* breaker that the memory monitor may open at any time
Admit == \E r \in ReqIds, att_code \in AttCodes :
           /\ NoneInFlight
           /\ metrics.totalRequests < MaxStageRequests
           /\ PostArrive(r, "10.0.0.1", att_code)

StageNext ==
  \/ Admit
  \/ TeamFound
  \/ EventFound
  \/ RenderSettled
  \/ MemoryCritical
  \/ Tick

StageSpec == Init /\ [][StageNext]_vars

\* the timings: requests that overlap, succeed or fail, and take time
Timed == \E r \in ReqIds, att_code \in {NoCode, "SOLO"} :
           /\ metrics.totalRequests < MaxTimingRequests
           /\ PostArrive(r, "10.0.0.1", att_code)

TimingNext ==
  \/ Timed
  \/ TeamFound
  \/ EventFound
  \/ RenderSettled
  \/ Tick

TimingSpec == Init /\ [][TimingNext]_vars

\* the metrics: one caller whose downloads use up its budget, issuance
\* requests with every attendance code, lookups and renders that may fail
Ask == \E r \in ReqIds, att_code \in AttCodes :
         /\ metrics.totalRequests < MaxMetricsRequests
         /\ PostArrive(r, "10.0.0.1", att_code)
Spend == Download("10.0.0.1", Token(1))

MetricsNext ==
  \/ Ask
  \/ Spend
  \/ TeamLookup
  \/ EventLookup
  \/ RenderSettled

MetricsSpec == Init /\ [][MetricsNext]_vars

\* the budget: one caller, issuance requests one at a time (one of them for
\* certificates), downloads of the first token, the clock
Budget == \E att_code \in {NoCode, "SOLO"} :
            /\ NoneInFlight
            /\ att_code = "SOLO" => issued = <<>>
            /\ PostArrive(1, "10.0.0.1", att_code)
Fetch == Download("10.0.0.1", Token(1))

BudgetNext ==
  \/ Budget
  \/ IssueTeam
  \/ IssueEvent
  \/ IssueRender
  \/ Fetch
  \/ Tick

BudgetSpec == Init /\ [][BudgetNext]_vars

\* the routes module loaded without server.js: the breaker record is the one
\* the module creates itself; requests of an eligible team one at a time,
\* renders that succeed or fail, the clock
FallbackInit ==
  /\ now = 0
  /\ circuitBreaker = FallbackBreaker
  /\ metrics = [ totalRequests |-> 0, successfulRequests |-> 0,
                 failedRequests |-> 0, generationTimes |-> <<>>,
                 lastError |-> "" ]
  /\ certificateStore = <<>>
  /\ requestCounts = <<>>
  /\ reqs = [ r \in ReqIds |-> Idle ]
  /\ call = NoBatch
  /\ render = NoRender
  /\ globalErrors = 0
  /\ issued = <<>>
  /\ evicted = {}
  /\ streak = [ fails |-> 0, from |-> "", trials |-> 0, clean |-> 0, run |-> 0,
                tripped |-> FALSE ]
  /\ out = NoOut

Retry == /\ NoneInFlight
         /\ metrics.totalRequests < MaxFallbackRequests
         /\ PostArrive(1, "10.0.0.1", "SOLO")

FallbackNext ==
  \/ Retry
  \/ TeamFound
  \/ EventFound
  \/ RenderSettled
  \/ Tick

FallbackSpec == FallbackInit /\ [][FallbackNext]_vars

\* recovery with the startup record: requests of an eligible team keep
\* arriving (a caller turned away with 503 comes back after resetTime), the
\* lookups succeed, renders fail at most MaxRecoveryFailures times and
\* succeed from then on, and time passes while the breaker is open. Every
\* continuation that can run does run, requests keep arriving and time keeps
\* passing: weak fairness of each step
Knock == \E r \in ReqIds :
           /\ metrics.totalRequests < MaxRecoveryRequests
           /\ ~circuitBreaker.isOpen \/ now > circuitBreaker.resetTime
           /\ PostArrive(r, "10.0.0.1", "SOLO")
Settle == \E r \in ReqIds, ok \in BOOLEAN :
            /\ ok \/ circuitBreaker.totalFailures < MaxRecoveryFailures
            /\ PostRender(r, ok)
Wait == /\ circuitBreaker.isOpen
        /\ now <= circuitBreaker.resetTime
        /\ Tick

RecoveryNext ==
  \/ Knock
  \/ TeamFound
  \/ EventFound
  \/ Settle
  \/ Wait

RecoverySpec ==
  /\ Init
  /\ [][RecoveryNext]_vars
  /\ WF_vars(Knock)
  /\ WF_vars(TeamFound)
  /\ WF_vars(EventFound)
  /\ WF_vars(Settle)
  /\ WF_vars(Wait)

\* the rate limiter: two callers, requests that end at once, the clock
Probe == \E ip \in IPs : Download(ip, Token(1))
ProbePost == /\ NoneInFlight
             /\ metrics.totalRequests < MaxRatePosts
             /\ PostArrive(1, "10.0.0.1", NoCode)

RateNext ==
  \/ Probe
  \/ ProbePost
  \/ Tick

RateSpec == Init /\ [][RateNext]_vars

\* generateCertificateBuffer called directly, as its unit tests do
Drawn == \E name \in Values, competition \in Values, files \in Files :
           RenderCall(name, competition, files)

RenderNext ==
  \/ Drawn
  \/ DocEnd
  \/ DocError
  \/ DocThrow
  \/ RetryTimer

RenderSpec == Init /\ [][RenderNext]_vars

\* generateTeamCertificateBuffers called directly, as its unit tests do
Called == \E members \in MembersInputs : CallBatch(members)
Rendered == \E ok \in BOOLEAN : CallSettle(ok)

BatchNext ==
  \/ Called
  \/ Rendered

BatchSpec == Init /\ [][BatchNext]_vars

----------------------------------------------------------------------------
(* Properties of the circuit breaker *)

\* the latest step answered an issuance request that reached the handler
Handled == out.kind = "post" /\ out.status # 429

\* C1: once consecutiveFailureThreshold issuance requests in a row have
\* ended in the catch block, the first of them met by a closed breaker, the
\* breaker is open; and the first request to reach the handler after that,
\* if resetTime has not passed when it arrives, is answered 503 with no
\* directory lookup and no render.
C1_BreakerTrip ==
  /\ ( /\ Handled
       /\ out.status = 500
       /\ streak.from = "closed"
       /\ streak.fails >= circuitBreaker.consecutiveFailureThreshold )
     => /\ BreakerStatus(circuitBreaker) = "open"
        /\ now <= circuitBreaker.resetTime
  /\ (Handled /\ out.afterTrip /\ ~out.due)
     => /\ out.status = 503
        /\ out.lookups = 0
        /\ out.renders = 0
  /\ \A r \in ReqIds : reqs[r].pc # "idle" => ~(reqs[r].afterTrip /\ ~reqs[r].due)

\* the request after a trip was turned away at the gate
C1_Witness ==
  /\ Handled
  /\ out.afterTrip
  /\ ~out.due
  /\ out.status = 503
  /\ out.before = "open"

\* C2: a request that finds the breaker open with now > resetTime is admitted
\* and leaves the breaker half-open; and once successThreshold requests in a
\* row have succeeded while the breaker was half-open, the breaker is closed
\* (isOpen and isHalfOpen false) with failureCount, consecutiveFailures and
\* successCount all 0.
C2_BreakerRecovery ==
  /\ (Handled /\ out.open /\ out.due)
     => out.status # 503 /\ out.gate = "half-open"
  /\ \A r \in ReqIds :
       (reqs[r].pc # "idle" /\ reqs[r].open /\ reqs[r].due)
       => reqs[r].gate = "half-open"
  /\ ( /\ Handled
       /\ out.status = 200
       /\ streak.trials >= circuitBreaker.successThreshold )
     => /\ ~circuitBreaker.isOpen
        /\ ~circuitBreaker.isHalfOpen
        /\ circuitBreaker.failureCount = 0
        /\ circuitBreaker.consecutiveFailures = 0
        /\ circuitBreaker.successCount = 0

\* the last of successThreshold trial requests closed the breaker
C2_Witness ==
  /\ Handled
  /\ out.status = 200
  /\ out.gate = "half-open"
  /\ streak.trials = circuitBreaker.successThreshold
  /\ BreakerStatus(circuitBreaker) = "closed"

\* C13: an issuance request that arrives while the breaker is open and now
\* has not passed resetTime is answered 503 with a retryAfter; it makes no
\* directory lookup, starts no render, inserts nothing into the store and
\* leaves isOpen, isHalfOpen and resetTime as they were.
C13_FailFastWhileOpen ==
  /\ (Handled /\ out.open /\ ~out.due)
     => /\ out.status = 503
        /\ out.retryAfter > 0
        /\ out.lookups = 0
        /\ out.renders = 0
        /\ Len(issued) = out.stored
        /\ circuitBreaker.isOpen = out.breaker.isOpen
        /\ circuitBreaker.isHalfOpen = out.breaker.isHalfOpen
        /\ circuitBreaker.resetTime = out.breaker.resetTime
  /\ \A r \in ReqIds : reqs[r].pc # "idle" => ~(reqs[r].open /\ ~reqs[r].due)

\* a request turned away at the very instant of resetTime
C13_Witness ==
  /\ Handled
  /\ out.open
  /\ now = out.breaker.resetTime
  /\ out.status = 503
  /\ circuitBreaker.isOpen

----------------------------------------------------------------------------
(* Properties of the certificate store *)

\* the latest step answered a download that passed the rate limiter, for a
\* token that an issuance returned
Redeemed ==
  /\ out.kind = "get"
  /\ out.status # 429
  /\ out.token \in 1..Len(issued)

\* C3: a download made at a time after the token's expiry returns 404, even
\* when no sweep has run since the expiry passed and the entry is still in
\* the store.
C3_ExpiryOnRead ==
  (Redeemed /\ out.at > issued[out.token].expiry) => out.status = 404

\* C4: immediately after a sweep cycle the store holds at most
\* MAX_CERTIFICATE_STORE_SIZE entries, whatever it held before the sweep.
C4_CapacityAfterSweep ==
  out.kind = "sweep" =>
    /\ Len(certificateStore) <= MAX_CERTIFICATE_STORE_SIZE
    /\ out.after = Len(certificateStore)

C4_Witness ==
  /\ out.kind = "sweep"
  /\ out.before > MAX_CERTIFICATE_STORE_SIZE
  /\ out.expired = 0
  /\ Len(certificateStore) = MAX_CERTIFICATE_STORE_SIZE

\* the entries of a store as a set
EntriesOf(store) == { store[i] : i \in DOMAIN store }

\* one sweep, from the store it found to the store it left: the entries
\* whose expiry is earlier than now are gone; of the others, all survive
\* when they are at most MAX_CERTIFICATE_STORE_SIZE, and otherwise exactly
\* MAX_CERTIFICATE_STORE_SIZE survive, none of them expiring before a removed
\* one
SweptAsSpecified(found, left) ==
  LET live == { e \in EntriesOf(found) : ~(e.expiry < now) }
      survivors == EntriesOf(left)
  IN /\ survivors \subseteq live
     /\ Len(left) = Cardinality(survivors)
     /\ IF Cardinality(live) > MAX_CERTIFICATE_STORE_SIZE
        THEN /\ Cardinality(live \ survivors)
                  = Cardinality(live) - MAX_CERTIFICATE_STORE_SIZE
             /\ \A gone \in live \ survivors, e \in survivors :
                  gone.expiry <= e.expiry
        ELSE survivors = live

\* C26: one sweep removes every entry whose expiry is earlier than now and
\* then, only if more than MAX_CERTIFICATE_STORE_SIZE entries remain, removes
\* exactly (size - MAX) further entries, each with an expiry no later than
\* that of every surviving entry; when at most MAX remain after the expiry
\* pass, no unexpired entry is removed.
C26_SweepSemantics ==
  [][out'.kind = "sweep" => SweptAsSpecified(certificateStore, certificateStore')]_vars

\* a sweep whose capacity pass chose between entries of different expiry
C26_Witness ==
  /\ out.kind = "sweep"
  /\ out.before - out.expired > MAX_CERTIFICATE_STORE_SIZE
  /\ \E e \in EntriesOf(certificateStore) :
       \E k \in evicted : issued[k].expiry < e.expiry

\* C5 as stated: every download that passes the rate limiter and is made
\* before the token's expiry returns 200 with the buffer that was stored, no
\* matter how many downloads, issuance requests and sweep cycles came before.
C5_RedemptionBeforeExpiry ==
  (Redeemed /\ out.at < issued[out.token].expiry)
  => /\ out.status = 200
     /\ out.buffer = issued[out.token].buffer

\* C5 amended: every download that passes the rate limiter and is made before
\* the token's expiry returns 200 with the buffer that was stored, whatever
\* downloads and issuance requests came before, unless a sweep cycle removed
\* the token in its capacity pass.
C5_RedemptionUnlessEvicted ==
  (Redeemed /\ out.at < issued[out.token].expiry /\ out.token \notin evicted)
  => /\ out.status = 200
     /\ out.buffer = issued[out.token].buffer

\* a second download of a token that outlived a sweep which evicted another
C5_Witness ==
  /\ Redeemed
  /\ out.status = 200
  /\ out.at < issued[out.token].expiry
  /\ evicted # {}
  /\ CallsOf(out.ip) = 2
  /\ Len(issued) = 3

----------------------------------------------------------------------------
(* Properties of eligibility *)

\* C10: an issuance request for a team whose attendance flag is not true is
\* answered 400 'Certificate unavailable: Attendance was not marked', with no
\* certificate rendered and no token stored for it.
C10_AttendanceEligibility ==
  ( /\ out.kind = "post"
    /\ out.team # Null
    /\ out.team.attendance # TRUE )
  => /\ out.status = 400
     /\ out.message = "Certificate unavailable: Attendance was not marked"
     /\ out.renders = 0
     /\ out.downloadTokens = <<>>

\* the breaker's failure counters
FailureCounters(cb) ==
  <<cb.failureCount, cb.consecutiveFailures, cb.totalFailures>>

\* C11: an issuance request whose event is found and is checked at a time
\* not after the event's end_time (now <= end_time) is answered 400
\* 'Certificates are only available after the event has ended'; nothing is
\* rendered, nothing is added to the certificate store, and the breaker's
\* failure counters are unchanged.
C11_EventConcluded ==
  ( /\ out.kind = "post"
    /\ out.event # Null
    /\ now <= out.event.end_time )
  => /\ out.status = 400
     /\ out.message = "Certificates are only available after the event has ended"
     /\ out.renders = 0
     /\ out.downloadTokens = <<>>
     /\ Len(issued) = out.stored
     /\ FailureCounters(circuitBreaker) = FailureCounters(out.breaker)

\* the request is checked at the very instant the event ends
C11_Witness ==
  /\ out.kind = "post"
  /\ out.event # Null
  /\ now = out.event.end_time
  /\ out.status = 400
  /\ out.att_code = "FUTURE"

\* C17: when a directory lookup or the batch render of an admitted request
\* throws, the request is answered 500 with the fixed message 'Error
\* generating certificate', which is not the text of the underlying error,
\* and failureCount, consecutiveFailures and totalFailures each grow by
\* exactly 1.
C17_CatchAll ==
  (out.kind = "post" /\ out.threw)
  => /\ out.status = 500
     /\ out.message = "Error generating certificate"
     /\ out.message # metrics.lastError
     /\ out.downloadTokens = <<>>
     /\ circuitBreaker.failureCount = out.breaker.failureCount + 1
     /\ circuitBreaker.consecutiveFailures =
          out.breaker.consecutiveFailures + 1
     /\ circuitBreaker.totalFailures = out.breaker.totalFailures + 1

\* a lookup failure after an earlier failure
C17_Witness ==
  /\ out.kind = "post"
  /\ out.threw
  /\ out.renders = 0
  /\ out.lookups = 2
  /\ out.breaker.totalFailures = 1
  /\ circuitBreaker.totalFailures = 2

\* the number of failed renders of the latest response's batch
RECURSIVE CountFailed(_)
CountFailed(outcomes) ==
  IF outcomes = <<>> THEN 0
  ELSE (IF Head(outcomes) THEN 0 ELSE 1) + CountFailed(Tail(outcomes))

\* the latest response ends a request whose batch render ran over a roster
BatchRan ==
  /\ out.kind = "post"
  /\ out.members # <<>>
  /\ Len(out.outcomes) = Len(out.members)

\* C18: a request of an eligible team with N members of which K renders
\* fail is answered 200 with exactly N - K descriptors when K < N, counted
\* as a successful request and not as a breaker failure; when K = N it is
\* answered a single 500 with no descriptors, no token is stored, and one
\* breaker failure is counted.
C18_PartialBatch ==
  BatchRan =>
    LET N == Len(out.members)
        K == CountFailed(out.outcomes)
    IN IF K < N
       THEN /\ out.status = 200
            /\ Len(out.downloadTokens) = N - K
            /\ Len(issued) = out.stored + (N - K)
            /\ metrics.successfulRequests = out.metrics.successfulRequests + 1
            /\ metrics.failedRequests = out.metrics.failedRequests
            /\ circuitBreaker.totalFailures = out.breaker.totalFailures
            /\ circuitBreaker.failureCount <= out.breaker.failureCount
            /\ circuitBreaker.consecutiveFailures
                 <= out.breaker.consecutiveFailures
            /\ circuitBreaker.isOpen = out.breaker.isOpen
       ELSE /\ out.status = 500
            /\ out.downloadTokens = <<>>
            /\ Len(issued) = out.stored
            /\ metrics.successfulRequests = out.metrics.successfulRequests
            /\ metrics.failedRequests = out.metrics.failedRequests + 1
            /\ FailureCounters(circuitBreaker) =
                 <<out.breaker.failureCount + 1,
                   out.breaker.consecutiveFailures + 1,
                   out.breaker.totalFailures + 1>>

\* one of two renders failed
C18_Witness ==
  /\ BatchRan
  /\ out.outcomes = <<TRUE, FALSE>>
  /\ out.status = 200
  /\ Len(out.downloadTokens) = 1

\* the breaker record has gone from half-open to closed in the latest step
Closes ==
  /\ out.before = "half-open"
  /\ BreakerStatus(circuitBreaker) = "closed"

\* C21: every successful issuance request sets consecutiveFailures to 0 and
\* leaves failureCount unchanged, whatever the breaker's state; failureCount
\* is reset only when the breaker closes.
C21_SuccessResetsConsecutive ==
  (Handled /\ out.status = 200)
  => /\ circuitBreaker.consecutiveFailures = 0
     /\ ~Closes => circuitBreaker.failureCount = out.breaker.failureCount

\* C22: when failures are interleaved with successes so that fewer than
\* consecutiveFailureThreshold failures occur in a row, the closed breaker is
\* opened by a failure only when failureCount has reached failureThreshold.
C22_SlowTrip ==
  ( /\ Handled
    /\ out.status = 500
    /\ out.before = "closed"
    /\ circuitBreaker.isOpen
    /\ streak.run < circuitBreaker.consecutiveFailureThreshold )
  => /\ circuitBreaker.failureCount >= circuitBreaker.failureThreshold
     /\ circuitBreaker.resetTime = now + circuitBreaker.resetTimeout

\* C23: a failure met while the breaker is half-open re-opens it (isOpen
\* true, isHalfOpen false, resetTime = now + resetTimeout) exactly when
\* consecutiveFailures or failureCount has reached its threshold after the
\* increment, and otherwise leaves it half-open, however the breaker came to
\* be open.
C23_HalfOpenFailure ==
  (Handled /\ out.status = 500 /\ out.before = "half-open")
  => IF \/ out.breaker.consecutiveFailures + 1
             >= out.breaker.consecutiveFailureThreshold
        \/ out.breaker.failureCount + 1 >= out.breaker.failureThreshold
     THEN /\ circuitBreaker.isOpen
          /\ ~circuitBreaker.isHalfOpen
          /\ circuitBreaker.resetTime = now + circuitBreaker.resetTimeout
     ELSE /\ ~circuitBreaker.isOpen
          /\ circuitBreaker.isHalfOpen
          /\ circuitBreaker.resetTime = out.breaker.resetTime

\* the breaker, opened by the memory monitor, is still half-open after a
\* failed trial
C23_Witness ==
  /\ Handled
  /\ out.status = 500
  /\ out.before = "half-open"
  /\ BreakerStatus(circuitBreaker) = "half-open"
  /\ circuitBreaker.consecutiveFailures = 1

\* the requests in flight that the gate admitted as trials or while half-open
Trials == { r \in ReqIds : reqs[r].pc # "idle" /\ reqs[r].gate = "half-open" }

\* C24: a request that finds the breaker open with now > resetTime turns it
\* half-open and is admitted, and a request that arrives while the breaker
\* is half-open is admitted as well, never answered 503, however many trial
\* requests are in flight: it is answered by a later stage, or it is in
\* flight.
C24_TrialAdmission ==
  /\ (Handled /\ out.gate = "half-open") => out.status # 503
  /\ (Handled /\ out.status = 503) => (out.open /\ ~out.due)
  /\ \A r \in ReqIds :
       (reqs[r].pc # "idle" /\ reqs[r].open)
       => (reqs[r].due /\ reqs[r].gate = "half-open")

\* two trials in flight: the one that turned the breaker half-open and one
\* that arrived while it was half-open
C24_Witness ==
  /\ Trials = ReqIds
  /\ \E r \in ReqIds : reqs[r].open /\ reqs[r].due
  /\ \E r \in ReqIds : ~reqs[r].open
  /\ BreakerStatus(circuitBreaker) = "half-open"

\* C25: a success advances the half-open successCount only for a request
\* that was admitted while the breaker was half-open: a 200 of a request
\* admitted while the breaker was closed leaves successCount and the
\* breaker's state as they were.
C25_TrialSuccessOnly ==
  (Handled /\ out.status = 200 /\ out.gate = "closed")
  => /\ circuitBreaker.successCount = out.breaker.successCount
     /\ BreakerStatus(circuitBreaker) = out.before

\* C29: every 503 response of the issuance endpoint carries retryAfter > 0:
\* the seconds left until resetTime, rounded up, and 30 for a request that
\* arrives at exactly now = resetTime.
C29_RetryHint ==
  (Handled /\ out.status = 503)
  => /\ out.retryAfter > 0
     /\ now < out.breaker.resetTime =>
          /\ (out.retryAfter - 1) * 1000 < out.breaker.resetTime - now
          /\ out.breaker.resetTime - now <= out.retryAfter * 1000
     /\ now = out.breaker.resetTime => out.retryAfter = 30

\* a request turned away at the very instant of resetTime
C29_Witness ==
  /\ Handled
  /\ out.status = 503
  /\ now = out.breaker.resetTime
  /\ out.retryAfter = 30

\* the generation times after one more success that took the given time
Rolled(times, duration) ==
  IF Len(times) < GenerationTimesKept
  THEN times \o <<duration>>
  ELSE SubSeq(times, 2, Len(times)) \o <<duration>>

\* C30: metrics.generationTimes holds at most the kept number of entries
\* (100 in the source), the durations of the most recent successful issuance
\* requests in completion order: a 200 appends its duration and drops the
\* oldest entry when the list is full, and no other step changes the list.
C30_RollingTimings ==
  /\ [](Len(metrics.generationTimes) <= GenerationTimesKept)
  /\ [][IF out'.kind = "post" /\ out'.status = 200
        THEN metrics'.generationTimes =
               Rolled(metrics.generationTimes, now - out'.startTime)
        ELSE metrics'.generationTimes = metrics.generationTimes]_vars

\* a success whose duration pushed the oldest entry out of a full list
C30_Witness ==
  /\ Handled
  /\ out.status = 200
  /\ Len(out.metrics.generationTimes) = GenerationTimesKept
  /\ metrics.generationTimes # out.metrics.generationTimes
  /\ metrics.generationTimes[GenerationTimesKept] = now - out.startTime
  /\ now - out.startTime > 0

\* C32: in every reachable state the breaker is in exactly one of the states
\* closed, open, half-open: isOpen and isHalfOpen are never both true.
C32_OneBreakerState ==
  ~(circuitBreaker.isOpen /\ circuitBreaker.isHalfOpen)

\* the issuance requests that passed the rate limiter and have not responded
InFlight == { r \in ReqIds : reqs[r].pc # "idle" }

BreakerState(cb) ==
  <<cb.isOpen, cb.isHalfOpen, cb.resetTime, cb.failureCount,
    cb.consecutiveFailures, cb.successCount>>

\* C35: an issuance request answered 400 or 404 leaves isOpen, isHalfOpen,
\* resetTime, failureCount, consecutiveFailures and successCount as they
\* were when it arrived: its gate on arrival changed nothing (the breaker
\* was not open with resetTime passed) and its answering step changed
\* nothing.
C35_EarlyExitLeavesBreaker ==
  (out.kind = "post" /\ out.status \in {400, 404})
  => /\ ~(out.open /\ out.due)
     /\ BreakerState(circuitBreaker) = BreakerState(out.breaker)

\* C36: while the breaker remains open, resetTime does not change: a failure
\* of a request admitted before the trip does not postpone the time at which
\* the breaker may become half-open.
C36_ResetTimeFixedWhileOpen ==
  [][(circuitBreaker.isOpen /\ circuitBreaker'.isOpen)
     => circuitBreaker'.resetTime = circuitBreaker.resetTime]_vars

\* C38: in every 200 issuance response each descriptor's memberIndex is the
\* position of its memberName in the roster certificateData.members
\* (members[memberIndex] = memberName, positions counted from 0), also when
\* some renders failed and fewer descriptors than members are returned.
C38_MemberIndexInRoster ==
  (out.kind = "post" /\ out.status = 200)
  => \A k \in DOMAIN out.downloadTokens :
       LET descriptor == out.downloadTokens[k] IN
       /\ descriptor.memberIndex + 1 \in DOMAIN out.members
       /\ out.members[descriptor.memberIndex + 1] = descriptor.memberName

\* C37: the breaker record that the routes module creates itself follows the
\* state machine of the startup record: a failure that brings failureCount
\* to failureThreshold leaves it open, the first request after resetTime
\* finds it open and turns it half-open, and a finite number
\* (MaxFallbackTrials) of successful requests in a row, answered while
\* half-open, returns it to closed.
C37_FallbackFollowsStartup ==
  /\ (out.kind = "post" /\ out.status = 500
        /\ circuitBreaker.failureCount >= circuitBreaker.failureThreshold)
     => circuitBreaker.isOpen
  /\ (out.kind = "post" /\ out.status \in {200, 500}
        /\ out.open /\ out.due)
     => out.gate = "half-open"
  /\ (out.kind = "post" /\ out.status = 200
        /\ streak.trials >= MaxFallbackTrials)
     => BreakerStatus(circuitBreaker) = "closed"

\* every render from now on succeeds
RendersSucceed == circuitBreaker.totalFailures >= MaxRecoveryFailures

\* enough requests are still to come for successThreshold trials
RequestsKeepArriving ==
  metrics.totalRequests + circuitBreaker.successThreshold <= MaxRecoveryRequests

C20_RecoveryRestarts ==
  ( /\ Handled
    /\ out.status = 200
    /\ out.before = "half-open"
    /\ BreakerStatus(circuitBreaker) = "closed" )
  => streak.clean >= circuitBreaker.successThreshold

\* the request of the latest response found the breaker open and not due
FoundShut == out.open /\ ~out.due

----------------------------------------------------------------------------
(* Properties of the rate limiter *)

\* the latest step answered a request of a caller
Answered == out.kind \in {"get", "post"}

\* C6: once RATE_LIMIT_MAX requests of a caller were admitted in the current
\* window, no further request of that caller is admitted before the window
\* has elapsed, each one rejected is answered 429 with a retryAfter greater
\* than 0, and a request made once the window has elapsed (now >= resetAt) is
\* admitted: a 429 is only ever answered before resetAt.
C6_RateLimit ==
  Answered =>
    LET record == requestCounts[out.ip] IN
    /\ record.count <= RATE_LIMIT_MAX
    /\ out.status = 429 => /\ record.count = RATE_LIMIT_MAX
                           /\ out.retryAfter > 0
                           /\ now < record.resetAt

\* a request of caller ip made now would pass the rate limiter
WouldAdmit(ip) ==
  \/ ip \notin DOMAIN requestCounts
  \/ requestCounts[ip].resetAt < now
  \/ requestCounts[ip].count < RATE_LIMIT_MAX

\* C31: a request of one caller never changes another caller's
\* {count, resetAt} record, and never changes whether a request of the other
\* caller is admitted or rejected with 429.
C31_CallerIsolation ==
  [][\A b \in IPs :
       (out'.kind \in {"get", "post"} /\ out'.ip # b /\ now' = now)
       => /\ (b \in DOMAIN requestCounts') = (b \in DOMAIN requestCounts)
          /\ b \in DOMAIN requestCounts => requestCounts'[b] = requestCounts[b]
          /\ WouldAdmit(b)' = WouldAdmit(b)]_vars

\* one caller is turned away while the other is in the middle of its budget
C31_Witness ==
  /\ Answered
  /\ out.status = 429
  /\ \E b \in IPs \ {out.ip} :
       /\ b \in DOMAIN requestCounts
       /\ requestCounts[b].count > 0
       /\ requestCounts[b].count < RATE_LIMIT_MAX
       /\ requestCounts[b].resetAt >= now

\* the requests of caller ip admitted so far in its current window
Used(ip) ==
  IF ip \notin DOMAIN requestCounts \/ requestCounts[ip].resetAt < now
  THEN 0 ELSE requestCounts[ip].count

\* this step is the arrival of an issuance request of caller ip (it is
\* counted in totalRequests, or turned away with 429 before that) or of a
\* download request of caller ip
PostOf(ip) ==
  \/ out'.kind = "post" /\ out'.status = 429 /\ out'.ip = ip
  \/ /\ metrics'.totalRequests = metrics.totalRequests + 1
     /\ \/ out'.kind = "post" /\ out'.ip = ip
        \/ \E r \in ReqIds : /\ reqs[r].pc = "idle"
                              /\ reqs'[r].pc # "idle"
                              /\ reqs'[r].ip = ip

GetOf(ip) == out'.kind = "get" /\ out'.ip = ip

\* it is turned away with 429
TurnedAway == out'.kind \in {"get", "post"} /\ out'.status = 429

\* C34: issuance and download draw on one budget per caller: every admitted
\* POST / or GET /download/:token of a caller adds 1 to the same count of
\* its window, the count never exceeds RATE_LIMIT_MAX, and once it has
\* reached RATE_LIMIT_MAX a request of either kind is answered 429, a
\* download of a valid unexpired token included.
C34_SharedBudget ==
  /\ [](\A ip \in DOMAIN requestCounts :
          requestCounts[ip].count <= RATE_LIMIT_MAX)
  /\ [][\A ip \in IPs :
         (PostOf(ip) \/ GetOf(ip)) =>
           /\ ip \in DOMAIN requestCounts'
           /\ IF Used(ip) >= RATE_LIMIT_MAX
              THEN /\ TurnedAway
                   /\ requestCounts'[ip].count = Used(ip)
              ELSE /\ ~TurnedAway
                   /\ requestCounts'[ip].count = Used(ip) + 1]_vars

\* the whole budget went into issuance requests; the download of the token
\* that one of them issued, still stored and unexpired, is turned away
C34_Witness ==
  /\ out.kind = "get"
  /\ out.status = 429
  /\ metrics.totalRequests = RATE_LIMIT_MAX
  /\ StoreHas(out.token)
  /\ now < StoreGet(out.token).expiry

\* a name with every run of whitespace replaced by one hyphen
RECURSIVE WithHyphens(_)
WithHyphens(name) ==
  IF name = <<>> THEN <<>>
  ELSE IF ~IsSpace(Head(name)) THEN <<Head(name)>> \o WithHyphens(Tail(name))
  ELSE IF Len(name) > 1 /\ IsSpace(name[2]) THEN WithHyphens(Tail(name))
  ELSE <<"-">> \o WithHyphens(Tail(name))

\* the latest step answered 200 to a request all of whose renders succeeded
IssuedInFull ==
  /\ out.kind = "post"
  /\ out.status = 200
  /\ \A i \in 1..Len(out.outcomes) : out.outcomes[i]

\* the descriptors of a full issuance: one per roster member, in roster
\* order, each with a token of 32 hex characters, no two tokens alike
DescriptorsMatchRoster ==
  LET roster == Members(out.team)
      tokens == out.downloadTokens
      text(k) == SubSeq(tokens[k].downloadUrl, 2, Len(tokens[k].downloadUrl))
  IN /\ Len(tokens) = Len(roster)
     /\ \A k \in 1..Len(tokens) :
          /\ tokens[k].memberName = roster[k]
          /\ tokens[k].memberIndex = k - 1
          /\ tokens[k].downloadUrl[1] = "/api/certificates/download/"
          /\ Len(text(k)) = 32
          /\ \A i \in 1..32 :
               text(k)[i] \in { HexDigits[d] : d \in 1..16 }
          /\ \A j \in 1..Len(tokens) : j # k => text(j) # text(k)

\* this step downloads token k of the response the step before gave, and
\* gets that member's certificate
RedeemsDescriptor(k) ==
  LET member == Members(out.team)[k] IN
  ( /\ out'.kind = "get"
    /\ out'.status # 429
    /\ out'.token = out.downloadTokens[k].token )
  => /\ out'.status = 200
     /\ out'.buffer = PdfBuffer(member, out.team.Competition, out.team.Team_Name)
     /\ out'.contentType = "application/pdf"
     /\ out'.filename = WithHyphens(member) \o <<"-Certificate.pdf">>

\* C12: the 200 response to a valid, eligible code whose renders all succeed
\* holds exactly one download descriptor per roster member, in roster order,
\* each with a distinct 32-hex-character token; and a download of any of
\* these tokens made right after the response returns 200 with that member's
\* PDF buffer, content type application/pdf and the filename '<name with
\* whitespace runs replaced by hyphens>-Certificate.pdf'.
C12_SuccessfulIssuance ==
  /\ [](IssuedInFull => DescriptorsMatchRoster)
  /\ [][IssuedInFull =>
          \A k \in 1..Len(out.downloadTokens) : RedeemsDescriptor(k)]_vars

\* the second member of a two-member team, whose name has a run of
\* whitespace, got its certificate by the token of the response
C12_Witness ==
  /\ out.kind = "get"
  /\ out.status = 200
  /\ out.token \in 1..Len(issued)
  /\ now + CERTIFICATE_TTL = issued[out.token].expiry
  /\ issued[out.token].name = <<"R", " ", "\t", "I">>
  /\ out.filename = <<"R", "-", "I", "-Certificate.pdf">>

----------------------------------------------------------------------------
(* Properties of generateTeamCertificateBuffers *)

\* the direct call has ended, by a return or by a throw
CallEnded == call.pc \in {"returned", "threw"}

\* the number of members of the call whose render failed
CallFailures == Cardinality({ i \in 1..Len(call.outcomes) : ~call.outcomes[i] })

\* the artifacts of the members whose render succeeded, in roster order
CallSuccesses ==
  LET kept[i \in 0..Len(call.outcomes)] ==
        IF i = 0 THEN <<>>
        ELSE IF call.outcomes[i]
             THEN Append(kept[i - 1],
                    [ name |-> call.members.items[i],
                      buffer |-> PdfBuffer(call.members.items[i],
                                           call.competition, call.teamName) ])
             ELSE kept[i - 1]
  IN kept[Len(call.outcomes)]

\* C7: a call on a roster of N names of which K fail to render, 0 < K < N,
\* does not throw and returns exactly N - K artifacts: the artifact of every
\* member whose render succeeded, in roster order, and none of a failed one.
C7_PartialFailureRoster ==
  ( /\ CallEnded
    /\ call.members.isArray
    /\ 0 < CallFailures
    /\ CallFailures < Len(call.members.items) )
  => /\ call.pc = "returned"
     /\ Len(call.outcomes) = Len(call.members.items)
     /\ Len(call.result) = Len(call.members.items) - CallFailures
     /\ call.result = CallSuccesses

C7_Witness ==
  /\ call.pc = "returned"
  /\ Len(call.members.items) = 3
  /\ CallFailures = 2
  /\ Len(call.result) = 1

\* C27: within one call the render of member i+1 starts only after the
\* render of member i has settled, so at most one render of the batch is in
\* flight at any time, and the artifacts appear in roster order of the
\* members that succeeded.
C27_SequentialBatch ==
  /\ call.pc = "await" =>
       /\ call.renders = Len(call.outcomes) + 1
       /\ call.i = call.renders
  /\ (call.pc # "await" /\ call.pc # "idle") =>
       call.renders = Len(call.outcomes)
  /\ call.members.isArray => call.certificates = CallSuccesses
  /\ (call.pc = "returned" /\ call.members.isArray) =>
       call.result = CallSuccesses

\* the third render is in flight after the first two have settled
C27_Witness ==
  /\ call.pc = "await"
  /\ call.renders = 3
  /\ call.outcomes = <<TRUE, FALSE>>
  /\ Len(call.certificates) = 1

\* C8: a call on a non-empty roster in which every member's render fails
\* throws 'Certificate generation failed for all team members' and returns
\* no artifacts.
C8_AllFail ==
  ( /\ CallEnded
    /\ call.members.isArray
    /\ Len(call.members.items) > 0
    /\ CallFailures = Len(call.members.items) )
  => /\ call.pc = "threw"
     /\ call.error = AllFailedMessage
     /\ call.result = <<>>

C8_Witness ==
  /\ call.pc = "threw"
  /\ Len(call.members.items) = 2
  /\ call.outcomes = <<FALSE, FALSE>>

\* C9: a call with an empty roster, or with a members argument that is not a
\* list, returns an empty list, throws nothing and starts no render.
C9_EmptyOrNonList ==
  ( /\ call.pc # "idle"
    /\ ~call.members.isArray \/ Len(call.members.items) = 0 )
  => /\ call.pc = "returned"
     /\ call.result = <<>>
     /\ call.renders = 0
     /\ call.outcomes = <<>>

C9_Witness ==
  /\ call.pc = "returned"
  /\ ~call.members.isArray
  /\ Len(call.members.items) > 0
  /\ call.renders = 0

----------------------------------------------------------------------------
(* The renderer *)

\* the arguments of the call pass the input validation
ValidInput ==
  /\ render.name.type = "string" /\ render.name.chars # <<>>
  /\ render.competition.type = "string" /\ render.competition.chars # <<>>

TemplatePresent == render.files.primary \/ render.files.fallback

\* C14: when every attempt of a render call fails at the rendering stage
\* (valid input, a template present, the document fails), the call makes at
\* most 3 attempts and never starts a 4th.
C14_BoundedRetry ==
  (render.pc # "idle" /\ ValidInput /\ TemplatePresent)
  => render.attempts <= 3

\* C15: a render call whose name or competition is empty or not a string is
\* rejected with the matching error after exactly one attempt, with no retry
\* and no backoff delay.
C15_InvalidInputNotRetried ==
  (render.pc # "idle" /\ ~ValidInput)
  => /\ render.pc = "rejected"
     /\ render.attempts = 1
     /\ render.timers = <<>>
     /\ render.error.message \in
          {"Invalid recipient name", "Invalid competition name"}

\* C28: every retry of a render call is preceded by a wait, on both failure
\* paths (an exception thrown while composing, an error event of the
\* document): the wait after failed attempt number k (k = 0, 1, 2, ...) is
\* backoffMs * 2^k, that is 500, 1000, 2000 ms.
C28_ExponentialBackoff ==
  render.pc # "idle" =>
    /\ Len(render.timers) =
         (render.attempts - 1) + (IF render.pc = "backoff" THEN 1 ELSE 0)
    /\ \A k \in DOMAIN render.timers :
         render.timers[k] = backoffMs * Pow2(k - 1)

\* C16: a render call with valid input draws every attempt on the primary
\* template when it exists and on the fallback template when only the
\* fallback exists; when neither exists no attempt draws, the call is
\* rejected with the template error once its attempts are used up, and it
\* never resolves; no call resolves without having drawn on a template.
C16_TemplateFallback ==
  /\ (render.pc # "idle" /\ ValidInput) =>
       /\ render.files.primary =>
            /\ Len(render.templates) = render.attempts
            /\ \A i \in DOMAIN render.templates :
                 render.templates[i] = "primary"
       /\ (~render.files.primary /\ render.files.fallback) =>
            /\ Len(render.templates) = render.attempts
            /\ \A i \in DOMAIN render.templates :
                 render.templates[i] = "fallback"
       /\ ~TemplatePresent =>
            /\ render.templates = <<>>
            /\ render.pc \in {"backoff", "rejected"}
            /\ render.pc = "rejected" =>
                 render.error.message =
                   "Certificate template not found and no fallback available"
            /\ render.attempts = MAX_RETRIES + 1 => render.pc = "rejected"
  /\ render.pc = "resolved" =>
       /\ render.templates # <<>>
       /\ render.files[render.templates[Len(render.templates)]]

C16_Witness ==
  /\ render.pc = "resolved"
  /\ ~render.files.primary
  /\ render.files.fallback
  /\ render.templates = <<"fallback">>

====
